---- MODULE Spec2Model ----
(***************************************************************************)
(* GitSyncer (src/git_syncer.py) with the Gitea client (src/gitea/api.py). *)
(* One process runs GitSyncer.run(): a start-up phase followed by the poll *)
(* loop around check_for_new_commit().  Each action is one external call   *)
(* (a git subprocess or an HTTP request) together with the Python code     *)
(* that follows it up to the next external call.  The environment is the   *)
(* upstream repository, the Gitea server, the operator of the local clone  *)
(* and, in RestartSpec, the supervisor that restarts the process.          *)
(***************************************************************************)
EXTENDS Integers, Sequences, FiniteSets, TLC

\* ---------------------------------------------------------------- bounds
NumCommits == 3      \* commits of the upstream history sha1 <- sha2 <- ...
MaxPRs == 3          \* pull requests the target holds
MaxExternal == 1     \* pull requests opened in the target by somebody else
MaxRestarts == 1     \* restarts of the process

VARIABLES
    pc,                  \* position of the process in run()
    source_head,         \* index of the commit at the head of the source
    local,               \* the local clone at self.local_path
    target_prs,          \* pull requests of the target repository
    target_branches,     \* branches pushed to the target repository
    target_has_commits,  \* the target repository holds at least one commit
    last_commit_sha,     \* self.last_commit_sha
    current_commit_sha,  \* check_for_new_commit: current_commit_sha
    pr_list,             \* handle_new_commit: pr_list
    pr_exists,           \* handle_new_commit: pr_exists
    calls,               \* external calls of the current phase, in order
    outcome,             \* how the current or latest cycle went
    exc,                 \* the exception that ended the latest cycle or run()
    last_at_start,       \* last_commit_sha when the cycle began
    observed,            \* distinct heads read by the cycles of this run
    prev_cycle,          \* the cycle before: outcome, head read, sleeps after
    commits_result,      \* what get_commits did at start-up (until the loop)
    restarts             \* restarts so far

vars == <<pc, source_head, local, target_prs, target_branches,
          target_has_commits, last_commit_sha, current_commit_sha, pr_list,
          pr_exists, calls, outcome, exc, last_at_start, observed,
          prev_cycle, commits_result, restarts>>

\* ------------------------------------------------------- Python values
\* A Python value is tagged with its type: bytes and str never compare equal.
None == [t |-> "none", v |-> ""]
Str(s) == [t |-> "str", v |-> s]
Bytes(s) == [t |-> "bytes", v |-> s]

\* str.format of a value inside an f-string: bytes print as their repr.
Format(x) ==
    IF x.t = "bytes" THEN "b'" \o x.v \o "'"
    ELSE IF x.t = "none" THEN "None"
    ELSE x.v

\* The hexadecimal name of the i-th upstream commit.
Sha(i) == "sha" \o ToString(i)

Commits == 1..NumCommits

Last(s) == s[Len(s)]
Range(s) == {s[i] : i \in 1..Len(s)}
Max(a, b) == IF a >= b THEN a ELSE b

\* ------------------------------------------------------ the local clone
NoClone == [exists |-> FALSE, head |-> "", branches |-> <<>>,
            tracking |-> <<>>, remotes |-> {}]

\* git clone: branch main at the source head, tracking origin.
GitClone(src) ==
    [exists |-> TRUE, head |-> "main", branches |-> ("main" :> src),
     tracking |-> ("main" :> "origin"), remotes |-> {"origin"}]

\* The commit HEAD points at.
HeadCommit(l) == l.branches[l.head]

\* git pull succeeds only when the checked-out branch has an upstream.
CanPull(l) == l.exists /\ l.tracking[l.head] # "none"

\* git pull: a branch tracking origin fast-forwards to the source head when
\* that is ahead and is "already up to date" otherwise; a mirror branch
\* tracking the target remote pulls its own commit back.
GitPull(l, src) ==
    IF l.tracking[l.head] = "origin"
    THEN [l EXCEPT !.branches[l.head] = Max(@, src)]
    ELSE l

\* git rev-parse HEAD through check_output(...).strip(): a bytes object.
get_source_latest_commit_sha(l) == Bytes(Sha(HeadCommit(l)))

\* git branch <name> refuses a name that exists.
CanBranch(l, name) == l.exists /\ name \notin DOMAIN l.branches

GitBranch(l, name) ==
    [l EXCEPT !.branches = (name :> HeadCommit(l)) @@ @,
              !.tracking = (name :> "none") @@ @]

GitCheckout(l, name) == [l EXCEPT !.head = name]

\* git push -u otc_gitea <name> needs the remote.
CanPush(l) == l.exists /\ "otc_gitea" \in l.remotes

GitPushU(l, name) == [l EXCEPT !.tracking[name] = "otc_gitea"]

\* ------------------------------------------------------- pure functions
\* handle_new_commit: branch_name = f"branch_{commit_sha}"
BranchName(commit_sha) == "branch_" \o Format(commit_sha)

\* create_pr_in_target: the request it sends to the Gitea API.
PrTitle(branch_name) == "Pull request for branch " \o branch_name

BaseBranch == "main"

NewPr(commit_sha) ==
    [title |-> PrTitle(BranchName(commit_sha)),
     head |-> BranchName(commit_sha),
     base |-> BaseBranch,
     by |-> "gitsyncer",
     commit |-> commit_sha.v]

\* A title of the JSON response is a str.
TitleOf(pr) == Str(pr.title)

\* A loop that returns False as soon as the first title differs.
check_if_pr_exists_first_only(commit_sha, prs) ==
    prs # <<>> /\ TitleOf(Head(prs)) = commit_sha

\* check_if_pr_exists: the loop over pr_list.
RECURSIVE check_if_pr_exists(_, _)
check_if_pr_exists(commit_sha, prs) ==
    IF prs = <<>> THEN FALSE
    ELSE IF TitleOf(Head(prs)) = commit_sha THEN TRUE
    ELSE check_if_pr_exists(commit_sha, Tail(prs))

\* --------------------------------------------------------------- Init
\* The state after GitSyncer.__init__: nothing has run.  The local path may
\* already hold a clone of the source; the target may or may not be empty.
Init ==
    /\ pc = "start"
    /\ source_head = 1
    /\ local \in {NoClone, GitClone(1)}
    /\ target_prs = <<>>
    /\ target_branches = {}
    /\ target_has_commits \in BOOLEAN
    /\ last_commit_sha = None
    /\ current_commit_sha = None
    /\ pr_list = <<>>
    /\ pr_exists = FALSE
    /\ calls = <<>>
    /\ outcome = "none"
    /\ exc = "none"
    /\ last_at_start = None
    /\ observed = <<>>
    /\ prev_cycle = [outcome |-> "none", head |-> None, slept |-> 0]
    /\ commits_result = "none"
    /\ restarts = 0

\* ------------------------------------------------- what an exception does
\* run(), before the loop: nothing catches the exception, the process ends.
Crash(e) ==
    /\ pc' = "crashed"
    /\ exc' = e

\* The assignment of line 136 in a finally clause.
LastAfterRaise_finally(last, current) == current

\* check_for_new_commit: an exception raised by handle_new_commit leaves
\* the method before the assignment of line 136.
LastAfterRaise(last, current) == last

\* The assignment of line 136 left out.
LastAfterCheck_stale(last, current) == last

\* check_for_new_commit, line 136, reached when nothing raised.
LastAfterCheck(last, current) == current

\* A loop without the except clause: the exception leaves run().
Raise_uncaught(e, current) ==
    /\ pc' = "crashed"
    /\ outcome' = "error"
    /\ exc' = e
    /\ last_commit_sha' = LastAfterRaise(last_commit_sha, current)

\* The exception reaches the except clause of the loop in run().
Raise(e, current) ==
    /\ pc' = "except"
    /\ outcome' = "error"
    /\ exc' = e
    /\ last_commit_sha' = LastAfterRaise(last_commit_sha, current)

\* check_for_new_commit returns; run() logs "Synchronization completed."
Return(current) ==
    /\ pc' = "sleep"
    /\ outcome' = "ok"
    /\ exc' = "none"
    /\ last_commit_sha' = LastAfterCheck(last_commit_sha, current)

envVars == <<source_head, target_prs, target_branches, target_has_commits>>
cycleLocals == <<current_commit_sha, pr_list, pr_exists>>
cycleHist == <<last_at_start, observed, prev_cycle>>

\* ------------------------------------------------------ run(): start-up
AtRunPull == pc = "run_pull" \/ (pc = "start" /\ local.exists)

\* if not os.path.exists(self.local_path): self.clone_source()
RunCloneOk ==
    /\ pc = "start" /\ ~local.exists
    /\ local' = GitClone(source_head)
    /\ calls' = Append(calls, "clone")
    /\ pc' = "run_pull"
    /\ UNCHANGED <<envVars, cycleLocals, cycleHist, last_commit_sha, outcome,
                   exc, commits_result, restarts>>

RunCloneFail ==
    /\ pc = "start" /\ ~local.exists
    /\ calls' = Append(calls, "clone")
    /\ Crash("CalledProcessError")
    /\ UNCHANGED <<envVars, cycleLocals, cycleHist, local, last_commit_sha,
                   outcome, commits_result, restarts>>

\* self.pull_source()
RunPullOk ==
    /\ AtRunPull /\ CanPull(local)
    /\ local' = GitPull(local, source_head)
    /\ calls' = Append(calls, "pull")
    /\ pc' = "run_head"
    /\ UNCHANGED <<envVars, cycleLocals, cycleHist, last_commit_sha, outcome,
                   exc, commits_result, restarts>>

RunPullFail ==
    /\ AtRunPull
    /\ calls' = Append(calls, "pull")
    /\ Crash("CalledProcessError")
    /\ UNCHANGED <<envVars, cycleLocals, cycleHist, local, last_commit_sha,
                   outcome, commits_result, restarts>>

\* The head is read at start-up and not stored.
RunHeadOk_unset ==
    /\ pc = "run_head"
    /\ calls' = Append(calls, "rev-parse")
    /\ pc' = "run_get_repo"
    /\ UNCHANGED <<envVars, cycleLocals, cycleHist, local, last_commit_sha,
                   outcome, exc, commits_result, restarts>>

\* self.last_commit_sha = self.get_source_latest_commit_sha()
RunHeadOk ==
    /\ pc = "run_head"
    /\ last_commit_sha' = get_source_latest_commit_sha(local)
    /\ calls' = Append(calls, "rev-parse")
    /\ pc' = "run_get_repo"
    /\ UNCHANGED <<envVars, cycleLocals, cycleHist, local, outcome, exc,
                   commits_result, restarts>>

RunHeadFail ==
    /\ pc = "run_head"
    /\ calls' = Append(calls, "rev-parse")
    /\ Crash("CalledProcessError")
    /\ UNCHANGED <<envVars, cycleLocals, cycleHist, local, last_commit_sha,
                   outcome, commits_result, restarts>>

\* self.get_target_repository(owner, repo, auto_create=True): found.
RunGetRepoOk ==
    /\ pc = "run_get_repo"
    /\ calls' = Append(calls, "get_repository")
    /\ pc' = "run_get_commits"
    /\ UNCHANGED <<envVars, cycleLocals, cycleHist, local, last_commit_sha,
                   outcome, exc, commits_result, restarts>>

\* get_repository raises HTTPError (404 or other).  The handler names
\* requests.HTTPError, and git_syncer.py never imports requests: evaluating
\* the except clause raises NameError, which leaves run().
RunGetRepoRaises ==
    /\ pc = "run_get_repo"
    /\ calls' = Append(calls, "get_repository")
    /\ Crash("NameError")
    /\ UNCHANGED <<envVars, cycleLocals, cycleHist, local, last_commit_sha,
                   outcome, commits_result, restarts>>

\* commits = self.target_api.get_commits(...): a non-empty list.
RunGetCommitsNonEmpty ==
    /\ pc = "run_get_commits" /\ target_has_commits
    /\ calls' = Append(calls, "get_commits")
    /\ commits_result' = "commits"
    /\ pc' = "loop"
    /\ UNCHANGED <<envVars, cycleLocals, cycleHist, local, last_commit_sha,
                   outcome, exc, restarts>>

\* get_commits returns []: "if not commits" prints a message; the call of
\* sync_source_to_target under it is commented out.
RunGetCommitsEmpty ==
    /\ pc = "run_get_commits" /\ ~target_has_commits
    /\ calls' = Append(calls, "get_commits")
    /\ commits_result' = "empty"
    /\ pc' = "loop"
    /\ UNCHANGED <<envVars, cycleLocals, cycleHist, local, last_commit_sha,
                   outcome, exc, restarts>>

\* get_commits raises HTTPError: 409 "Git Repository is empty." for an empty
\* target, or any other failure.  As in RunGetRepoRaises the except clause
\* raises NameError before its body (sync_source_to_target) can run.
RunGetCommitsRaises ==
    /\ pc = "run_get_commits"
    /\ \E signal \in {"409 empty", "error"} :
          /\ signal = "409 empty" => ~target_has_commits
          /\ commits_result' = signal
    /\ calls' = Append(calls, "get_commits")
    /\ Crash("NameError")
    /\ UNCHANGED <<envVars, cycleLocals, cycleHist, local, last_commit_sha,
                   outcome, restarts>>

\* ------------------------------------------- run(): one cycle of the loop
\* The try block of the loop is entered: check_for_new_commit() begins with
\* pull_source().  (Line 129 names _ensure_target_repository_exists without
\* calling it.)
CycleStart ==
    /\ pc = "loop"
    /\ last_at_start' = last_commit_sha
    /\ calls' = <<"pull">>
    /\ commits_result' = "none"

PullOk ==
    /\ CycleStart
    /\ CanPull(local)
    /\ local' = GitPull(local, source_head)
    /\ pc' = "head"
    /\ outcome' = "running"
    /\ UNCHANGED <<envVars, cycleLocals, last_commit_sha, exc, observed,
                   prev_cycle, restarts>>

PullFail ==
    /\ CycleStart
    /\ Raise("CalledProcessError", None)
    /\ UNCHANGED <<envVars, cycleLocals, local, observed, prev_cycle,
                   restarts>>

\* The head that a cycle reads is appended to observed when it differs from
\* the head read before it.
Observe(obs, sha) ==
    IF obs # <<>> /\ Last(obs) = sha THEN obs ELSE Append(obs, sha)

\* current_commit_sha = self.get_source_latest_commit_sha(), then the
\* comparison with self.last_commit_sha.
HeadOk ==
    /\ pc = "head"
    /\ current_commit_sha' = get_source_latest_commit_sha(local)
    /\ calls' = Append(calls, "rev-parse")
    /\ observed' = Observe(observed, current_commit_sha')
    /\ IF current_commit_sha' # last_commit_sha
       THEN /\ pc' = "list_prs"
            /\ UNCHANGED <<last_commit_sha, outcome, exc>>
       ELSE Return(get_source_latest_commit_sha(local))
    /\ UNCHANGED <<envVars, local, pr_list, pr_exists, last_at_start,
                   prev_cycle, commits_result, restarts>>

HeadFail ==
    /\ pc = "head"
    /\ calls' = Append(calls, "rev-parse")
    /\ Raise("CalledProcessError", current_commit_sha)
    /\ UNCHANGED <<envVars, cycleLocals, cycleHist, local, commits_result,
                   restarts>>

\* handle_new_commit: pr_list = self.get_target_pull_requests(), then
\* pr_exists = self.check_if_pr_exists(commit_sha, pr_list).
ListPrsOk ==
    /\ pc = "list_prs"
    /\ calls' = Append(calls, "list_prs")
    /\ pr_list' = target_prs
    /\ pr_exists' = check_if_pr_exists(current_commit_sha, pr_list')
    /\ IF pr_exists'
       THEN Return(current_commit_sha)
       ELSE /\ pc' = "create_branch"
            /\ UNCHANGED <<last_commit_sha, outcome, exc>>
    /\ UNCHANGED <<envVars, cycleHist, local, current_commit_sha,
                   commits_result, restarts>>

ListPrsFail ==
    /\ pc = "list_prs"
    /\ calls' = Append(calls, "list_prs")
    /\ Raise("HTTPError", current_commit_sha)
    /\ UNCHANGED <<envVars, cycleLocals, cycleHist, local, commits_result,
                   restarts>>

\* create_branch_in_target: git branch <branch_name>
CreateBranchOk ==
    /\ pc = "create_branch"
    /\ CanBranch(local, BranchName(current_commit_sha))
    /\ calls' = Append(calls, "create_branch")
    /\ local' = GitBranch(local, BranchName(current_commit_sha))
    /\ pc' = "checkout"
    /\ UNCHANGED <<envVars, cycleLocals, cycleHist, last_commit_sha, outcome,
                   exc, commits_result, restarts>>

CreateBranchFail ==
    /\ pc = "create_branch"
    /\ calls' = Append(calls, "create_branch")
    /\ Raise("CalledProcessError", current_commit_sha)
    /\ UNCHANGED <<envVars, cycleLocals, cycleHist, local, commits_result,
                   restarts>>

\* create_branch_in_target: git checkout <branch_name>
CheckoutOk ==
    /\ pc = "checkout"
    /\ calls' = Append(calls, "checkout")
    /\ local' = GitCheckout(local, BranchName(current_commit_sha))
    /\ pc' = "push"
    /\ UNCHANGED <<envVars, cycleLocals, cycleHist, last_commit_sha, outcome,
                   exc, commits_result, restarts>>

CheckoutFail ==
    /\ pc = "checkout"
    /\ calls' = Append(calls, "checkout")
    /\ Raise("CalledProcessError", current_commit_sha)
    /\ UNCHANGED <<envVars, cycleLocals, cycleHist, local, commits_result,
                   restarts>>

\* push_to_target_branch: git push -u otc_gitea <branch_name>
PushOk ==
    /\ pc = "push"
    /\ CanPush(local)
    /\ calls' = Append(calls, "push")
    /\ local' = GitPushU(local, BranchName(current_commit_sha))
    /\ target_branches' = target_branches \cup {BranchName(current_commit_sha)}
    /\ target_has_commits' = TRUE
    /\ pc' = "create_pr"
    /\ UNCHANGED <<source_head, target_prs, cycleLocals, cycleHist,
                   last_commit_sha, outcome, exc, commits_result, restarts>>

\* A failed push that is caught and ignored inside the cycle.
PushFail_swallowed ==
    /\ pc = "push"
    /\ calls' = Append(calls, "push")
    /\ pc' = "create_pr"
    /\ UNCHANGED <<envVars, cycleLocals, cycleHist, local, last_commit_sha,
                   outcome, exc, commits_result, restarts>>

PushFail ==
    /\ pc = "push"
    /\ calls' = Append(calls, "push")
    /\ Raise("CalledProcessError", current_commit_sha)
    /\ UNCHANGED <<envVars, cycleLocals, cycleHist, local, commits_result,
                   restarts>>

\* create_pr_in_target: the POST succeeds; handle_new_commit returns.
CreatePrOk ==
    /\ pc = "create_pr"
    /\ Len(target_prs) < MaxPRs
    /\ calls' = Append(calls, "create_pr")
    /\ target_prs' = Append(target_prs, NewPr(current_commit_sha))
    /\ Return(current_commit_sha)
    /\ UNCHANGED <<source_head, target_branches, target_has_commits,
                   cycleLocals, cycleHist, local, commits_result, restarts>>

CreatePrFail ==
    /\ pc = "create_pr"
    /\ calls' = Append(calls, "create_pr")
    /\ Raise("HTTPError", current_commit_sha)
    /\ UNCHANGED <<envVars, cycleLocals, cycleHist, local, commits_result,
                   restarts>>

\* The cycle is over: the loop goes round.  What the cycle did and how
\* often the driver slept after it is kept in prev_cycle; its locals are
\* gone.
EndCycle(slept) ==
    /\ pc' = "loop"
    /\ prev_cycle' = [outcome |-> outcome, head |-> current_commit_sha,
                      slept |-> slept]
    /\ current_commit_sha' = None
    /\ pr_list' = <<>>
    /\ pr_exists' = FALSE
    /\ calls' = <<>>
    /\ outcome' = "none"
    /\ exc' = "none"
    /\ last_at_start' = None
    /\ UNCHANGED <<envVars, local, last_commit_sha, observed, commits_result,
                   restarts>>

\* time.sleep(self.wait_time), the last statement of the try block.
Sleep ==
    /\ pc = "sleep"
    /\ EndCycle(1)

\* except Exception as e: logging.error(...).  The handler does not sleep.
LogError ==
    /\ pc = "except"
    /\ EndCycle(0)

\* ------------------------------------------------------- the environment
procVars == <<pc, last_commit_sha, cycleLocals, calls, outcome, exc,
              cycleHist, commits_result, restarts>>

\* Upstream gains a commit (or a rewound commit is pushed again).
SourcePush ==
    /\ source_head < NumCommits
    /\ source_head' = source_head + 1
    /\ UNCHANGED <<procVars, local, target_prs, target_branches,
                   target_has_commits>>

\* Upstream is force-pushed back by one commit.
SourceRewind ==
    /\ source_head > 1
    /\ source_head' = source_head - 1
    /\ UNCHANGED <<procVars, local, target_prs, target_branches,
                   target_has_commits>>

\* A pull request opened by hand for the commit at the head of the source.
ExternalTitles == {Sha(source_head)}

\* Somebody else opens a pull request in the target.
ExternalPR ==
    /\ Len(target_prs) < MaxPRs
    /\ Cardinality({i \in 1..Len(target_prs) :
                       target_prs[i].by = "external"}) < MaxExternal
    /\ \E title \in ExternalTitles :
          target_prs' = Append(target_prs,
              [title |-> title, head |-> "feature", base |-> BaseBranch,
               by |-> "external", commit |-> ""])
    /\ UNCHANGED <<procVars, local, source_head, target_branches,
                   target_has_commits>>

\* The operator adds the remote otc_gitea to the local clone by hand.
OperatorAddRemote ==
    /\ local.exists
    /\ "otc_gitea" \notin local.remotes
    /\ local' = [local EXCEPT !.remotes = @ \cup {"otc_gitea"}]
    /\ UNCHANGED <<procVars, envVars>>

\* The process is stopped and started again; the local clone may have been
\* deleted in between.  A new GitSyncer object starts with last_commit_sha
\* None.
Restart ==
    /\ restarts < MaxRestarts
    /\ restarts' = restarts + 1
    /\ \E delete \in BOOLEAN :
          local' = IF delete THEN NoClone ELSE local
    /\ pc' = "start"
    /\ last_commit_sha' = None
    /\ current_commit_sha' = None
    /\ pr_list' = <<>>
    /\ pr_exists' = FALSE
    /\ calls' = <<>>
    /\ outcome' = "none"
    /\ exc' = "none"
    /\ last_at_start' = None
    /\ observed' = <<>>
    /\ prev_cycle' = [outcome |-> "none", head |-> None, slept |-> 0]
    /\ commits_result' = "none"
    /\ UNCHANGED <<source_head, target_prs, target_branches,
                   target_has_commits>>

\* ------------------------------------------------------ specification
\* The steps of the process.
ProcNext ==
    \/ RunCloneOk \/ RunCloneFail
    \/ RunPullOk \/ RunPullFail
    \/ RunHeadOk \/ RunHeadFail
    \/ RunGetRepoOk \/ RunGetRepoRaises
    \/ RunGetCommitsNonEmpty \/ RunGetCommitsEmpty \/ RunGetCommitsRaises
    \/ PullOk \/ PullFail
    \/ HeadOk \/ HeadFail
    \/ ListPrsOk \/ ListPrsFail
    \/ CreateBranchOk \/ CreateBranchFail
    \/ CheckoutOk \/ CheckoutFail
    \/ PushOk \/ PushFail
    \/ CreatePrOk \/ CreatePrFail
    \/ Sleep \/ LogError

\* The upstream repository and the operator of the local clone.
EnvNext == SourcePush \/ SourceRewind \/ OperatorAddRemote

\* One run of the daemon, from GitSyncer(config).run() on, next to the
\* upstream repository, the operator and other users of the target.
Next == ProcNext \/ EnvNext \/ ExternalPR

Spec == Init /\ [][Next]_vars

\* The daemon across restarts, with or without its local clone.
RestartNext == ProcNext \/ EnvNext \/ Restart

RestartSpec == Init /\ [][RestartNext]_vars

TypeOK ==
    /\ pc \in {"start", "run_pull", "run_head", "run_get_repo",
               "run_get_commits", "loop", "head", "list_prs", "create_branch",
               "checkout", "push", "create_pr", "sleep", "except",
               "crashed"}
    /\ source_head \in Commits
    /\ Len(target_prs) <= MaxPRs
    /\ last_commit_sha.t \in {"none", "bytes"}
    /\ outcome \in {"none", "running", "ok", "error"}
    /\ restarts \in 0..MaxRestarts

\* ------------------------------------------------------------ properties
\* Pull requests in prs that this program created for the commit named sha.
SystemPRs(prs, sha) ==
    {i \in 1..Len(prs) : prs[i].by = "gitsyncer" /\ prs[i].commit = sha}

MirrorCalls == {"create_branch", "checkout", "push", "create_pr"}

\* The latest cycle has ended, normally or with an exception.
CycleEnded == outcome \in {"ok", "error"}

\* The current (or latest) cycle has read the head of the local clone.
HeadRead == current_commit_sha # None

\* C1: over any sequence of cycles the program creates at most one pull
\* request in the target for any given commit SHA.
C1_AtMostOnePrPerSha ==
    \A c \in Commits : Cardinality(SystemPRs(target_prs, Sha(c))) <= 1

\* C3: when the head advanced to s and the listed pull requests were empty,
\* a cycle that completes has created the local branch branch_s, pushed it
\* under that name, and created exactly one pull request with title s, head
\* branch_s and base main.
C3_MirrorCreatesPrTitledSha ==
    (outcome = "ok" /\ "list_prs" \in Range(calls) /\ pr_list = <<>>) =>
        LET s == current_commit_sha.v
            b == "branch_" \o s
        IN  /\ b \in DOMAIN local.branches
            /\ b \in target_branches
            /\ Cardinality({i \in 1..Len(target_prs) :
                   /\ target_prs[i].title = s
                   /\ target_prs[i].head = b
                   /\ target_prs[i].base = "main"}) = 1

\* C4: a pull request that the program created for commit s is recognised by
\* the duplicate check of a later mirror of s, which then ends as a no-op
\* skip: no error, no branch creation, no push, no pull-request creation.
C4_OwnPrRecognised ==
    SystemPRs(pr_list, current_commit_sha.v) # {} =>
        /\ pr_exists
        /\ Range(calls) \cap MirrorCalls = {}
        /\ outcome # "error"

\* C6: when the head advanced to s and the listed pull requests contain one
\* whose title is s, the cycle makes no create-branch, push or
\* create-pull-request call and ends with last_commit_sha equal to s.
C6_ExistingPrSkipsMirror ==
    (\E i \in 1..Len(pr_list) : pr_list[i].title = current_commit_sha.v) =>
        /\ Range(calls) \cap MirrorCalls = {}
        /\ CycleEnded => last_commit_sha = current_commit_sha

NoMirrorCalls == Range(calls) \cap (MirrorCalls \cup {"list_prs"}) = {}

\* The cycle has read the head that the cycle before it read: the source
\* head did not change between the two.
SameHeadAsBefore == HeadRead /\ current_commit_sha = prev_cycle.head

C10_BootstrapGating ==
    commits_result # "none" =>
        ((commits_result \in {"empty", "409 empty"})
            <=> ("push_main" \in Range(calls) /\ target_has_commits))

\* --------------------------------------- check_if_pr_exists on its own
MaxListLen == 3      \* pull requests in a list handed to check_if_pr_exists

CheckShas == {Sha(1), Sha(2)}

\* Titles that equal a SHA, contain one, or extend one.
CheckTitles ==
    CheckShas \cup {"Pull request for " \o Sha(1), Sha(1) \o "0"}

CheckPrs ==
    {[title |-> t, head |-> "feature", base |-> BaseBranch,
      by |-> "external", commit |-> ""] : t \in CheckTitles}

CheckLists == UNION {[1..n -> CheckPrs] : n \in 0..MaxListLen}

\* A caller is about to call check_if_pr_exists(commit_sha, pr_list) with a
\* str and a list of pull requests.
CheckInit ==
    /\ pc = "check_if_pr_exists"
    /\ current_commit_sha \in {Str(t) : t \in CheckShas}
    /\ pr_list \in CheckLists
    /\ pr_exists = FALSE
    /\ source_head = 1
    /\ local = NoClone
    /\ target_prs = <<>>
    /\ target_branches = {}
    /\ target_has_commits = FALSE
    /\ last_commit_sha = None
    /\ calls = <<>>
    /\ outcome = "none"
    /\ exc = "none"
    /\ last_at_start = None
    /\ observed = <<>>
    /\ prev_cycle = [outcome |-> "none", head |-> None, slept |-> 0]
    /\ commits_result = "none"
    /\ restarts = 0

CheckIfPrExists ==
    /\ pc = "check_if_pr_exists"
    /\ pr_exists' = check_if_pr_exists(current_commit_sha, pr_list)
    /\ pc' = "checked"
    /\ UNCHANGED <<envVars, local, last_commit_sha, current_commit_sha,
                   pr_list, calls, outcome, exc, cycleHist, commits_result,
                   restarts>>

CheckNext == CheckIfPrExists

CheckSpec == CheckInit /\ [][CheckNext]_vars

\* C5: check_if_pr_exists(s, prs) returns true exactly when some pull request
\* of prs has a title equal to s as a whole string; a title that contains s
\* or extends it is not a match.
C5_ExactTitleMatch ==
    pc = "checked" =>
        (pr_exists <=>
            \E i \in 1..Len(pr_list) : pr_list[i].title = current_commit_sha.v)

C5_Witness ==
    /\ pc = "checked"
    /\ Len(pr_list) = 3
    /\ pr_list[1].title = "Pull request for " \o current_commit_sha.v
    /\ pr_list[2].title = current_commit_sha.v \o "0"
    /\ pr_list[3].title = current_commit_sha.v
    /\ pr_exists

\* ----------------------------------------- the daemon when every call works
\* git pull with no upstream configured for the checked-out branch.
PullNoUpstream == ~CanPull(local) /\ PullFail

\* git push to a remote that the clone does not have.
PushNoRemote == ~CanPush(local) /\ PushFail

ProcStep ==
    \/ RunCloneOk \/ RunPullOk \/ RunHeadOk \/ RunGetRepoOk
    \/ RunGetCommitsNonEmpty \/ RunGetCommitsEmpty
    \/ PullOk \/ PullNoUpstream
    \/ HeadOk \/ ListPrsOk
    \/ CreateBranchOk \/ CheckoutOk
    \/ PushOk \/ PushNoRemote
    \/ CreatePrOk
    \/ Sleep \/ LogError

LiveNext == ProcStep \/ SourcePush \/ OperatorAddRemote

\* No external call fails for a transient reason, nobody restarts the
\* process, and the process keeps taking steps.
LiveSpec == Init /\ [][LiveNext]_vars /\ WF_vars(ProcStep)

LoopPcs == {"loop", "head", "list_prs", "create_branch", "checkout", "push",
            "create_pr", "sleep", "except"}

\* Commit c became the source head after the start-up pull of the running
\* daemon, whose clone can push to the target.
NewInSource(c) ==
    /\ pc \in LoopPcs
    /\ source_head = c
    /\ local.branches["main"] < c
    /\ CanPush(local)

\* C2: when external calls succeed, every commit that newly appears in the
\* source while the daemon runs eventually has a pull request in the target.
C2_NoCommitLost ==
    \A c \in Commits :
        NewInSource(c) ~> (SystemPRs(target_prs, Sha(c)) # {})

\* ------------------------------------------------- start-up and the loop
\* Call a occurs in cs before call b.
CalledBefore(cs, a, b) ==
    \E i, j \in 1..Len(cs) : i < j /\ cs[i] = a /\ cs[j] = b

\* C11: when get_commits raised the empty-repository signal, the bootstrap
\* has removed a stale remote, added the remote otc_gitea, pushed main to it
\* and only then called get_commits again; afterwards the remote exists in
\* the local clone.
C11_BootstrapOnEmptySignal ==
    commits_result = "409 empty" =>
        /\ CalledBefore(calls, "remote_add", "push_main")
        /\ CalledBefore(calls, "push_main", "get_commits")
        /\ Last(calls) = "get_commits"
        /\ "otc_gitea" \in local.remotes

\* The daemon when it keeps running: any call may fail in any cycle, and the
\* process always takes its next step.
FairNext == ProcNext \/ EnvNext

FairSpec == Init /\ [][FairNext]_vars /\ WF_vars(ProcNext)

\* C12: once the loop has started an exception of a cycle never ends the
\* process; every failed cycle is followed by the top of the loop, and from
\* the top of the loop another cycle is started.
C12_FailedCycleNeverEndsProcess ==
    /\ [][(pc \in LoopPcs) => (pc' \in LoopPcs)]_vars
    /\ (outcome = "error") ~> (pc = "loop")
    /\ (pc = "loop") ~> (outcome \in {"running", "error"})

C12_Witness ==
    /\ prev_cycle.outcome = "error"
    /\ outcome = "running"
    /\ pc = "head"

\* C13: between the end of a cycle and the start of the next one the driver
\* sleeps wait_time exactly once, after a cycle that completed and after a
\* cycle that raised.
C13_SleepsOnceBetweenCycles ==
    prev_cycle.outcome \in {"ok", "error"} => prev_cycle.slept = 1

\* C14: a get_commits failure other than the empty-repository signal ends
\* run() before the loop, and the loop is only entered with a target that
\* holds the mirrored history.
C14_LoopOnlyWithMirroredTarget ==
    /\ commits_result = "error" => pc = "crashed"
    /\ pc \in LoopPcs => target_has_commits

\* The external calls of a cycle that mirrors a commit, in program order.
CycleCalls == <<"pull", "rev-parse", "list_prs", "create_branch", "checkout",
                "push", "create_pr">>

\* A call of the cycle fails.
StepFails ==
    \/ PullFail \/ HeadFail \/ ListPrsFail \/ CreateBranchFail
    \/ CheckoutFail \/ PushFail \/ CreatePrFail

\* C15: a failure of any call of a cycle reaches the loop of run() as an
\* exception at that step, no later step of the cycle runs, and a cycle that
\* returns without having made all calls found the head unchanged or found
\* that the pull request exists.
C15_NoErrorSwallowed ==
    [][/\ StepFails =>
            /\ pc' = "except" /\ outcome' = "error" /\ exc' # "none"
            /\ calls' \in {SubSeq(CycleCalls, 1, n) : n \in 1..Len(CycleCalls)}
       /\ (pc = "except") => (pc' = "loop" \/ (pc' = "except" /\ calls' = calls))
       /\ (outcome' = "ok") =>
            \/ calls' = CycleCalls
            \/ calls' = SubSeq(CycleCalls, 1, 3) /\ pr_exists'
            \/ calls' = SubSeq(CycleCalls, 1, 2)
                  /\ current_commit_sha' = last_at_start'
      ]_vars

C15_Witness ==
    /\ pc = "except" /\ outcome = "error" /\ exc = "CalledProcessError"
    /\ calls = SubSeq(CycleCalls, 1, 6)
    /\ CanPush(local)
    /\ target_prs = <<>>

\* C16: in every cycle, when pull_source has completed, the head of the
\* local clone (the SHA the cycle reads next) is the head of the source.
C16_PullBringsSourceHead ==
    [][PullOk => get_source_latest_commit_sha(local') = Bytes(Sha(source_head))
      ]_vars

\* ------------------------------------ the daemon under transient failures
\* git branch for a name that the clone already has.
BranchExists ==
    /\ pc = "create_branch"
    /\ ~CanBranch(local, BranchName(current_commit_sha))
    /\ CreateBranchFail

\* A call of the mirror step fails for a passing reason.  The cycle after a
\* failed cycle is spared: failures never hit two cycles in a row.
TransientFail ==
    /\ prev_cycle.outcome # "error"
    /\ \/ ListPrsFail \/ CreateBranchFail \/ CheckoutFail
       \/ PushFail \/ CreatePrFail

RetryStep == ProcStep \/ BranchExists \/ TransientFail

RetryNext == RetryStep \/ SourcePush \/ OperatorAddRemote

\* The process keeps taking steps; after a failed cycle every call that can
\* succeed does succeed.
RetrySpec == Init /\ [][RetryNext]_vars /\ WF_vars(RetryStep)

\* The mirror of commit c, the head of the source, has just failed partway
\* in a clone that can push to the target, after a cycle that did not fail.
MirrorFailed(c) ==
    /\ pc = "except"
    /\ "list_prs" \in Range(calls)
    /\ current_commit_sha = Bytes(Sha(c))
    /\ source_head = c
    /\ prev_cycle.outcome # "error"
    /\ CanPush(local)

\* C17: when the mirror of commit c failed partway for a passing reason and
\* the source head stays at c, a pull request for c eventually exists in the
\* target.
C17_ProgressAfterTransientFailure ==
    \A c \in Commits :
        MirrorFailed(c) ~> (SystemPRs(target_prs, Sha(c)) # {} \/ source_head # c)

\* C18: within one cycle the calls are made in the order pull, rev-parse,
\* list pull requests, create branch, checkout, push, create pull request;
\* a branch is created only after the duplicate check on the listed pull
\* requests returned false, and a pull request is created only after the
\* push of its head branch succeeded in the same cycle.
C18_MirrorCallOrder ==
    /\ outcome # "none" =>
          calls \in {SubSeq(CycleCalls, 1, n) : n \in 1..Len(CycleCalls)}
    /\ (outcome # "none" /\ "create_branch" \in Range(calls)) =>
          /\ CalledBefore(calls, "list_prs", "create_branch")
          /\ ~pr_exists
          /\ ~check_if_pr_exists(current_commit_sha, pr_list)
    /\ (outcome # "none" /\ "create_pr" \in Range(calls)) =>
          /\ CalledBefore(calls, "push", "create_pr")
          /\ BranchName(current_commit_sha) \in target_branches
          /\ local.tracking[BranchName(current_commit_sha)] = "otc_gitea"
    /\ \A i \in 1..Len(target_prs) :
          target_prs[i].by = "gitsyncer" => target_prs[i].head \in target_branches

C18_Witness ==
    /\ outcome = "ok"
    /\ calls = CycleCalls
    /\ target_prs # <<>>
    /\ Last(target_prs) = NewPr(current_commit_sha)
    /\ Last(target_prs).head \in target_branches

\* The first cycle of a run of the process is under way or has ended.
FirstCycle == prev_cycle.outcome = "none" /\ outcome # "none"

\* C19: on every start of the process, with the old clone or a fresh one,
\* the loop is entered with last_commit_sha equal to the head of the local
\* clone after the start-up pull, and a first cycle that reads that same
\* head makes no list-pull-requests, create-branch, push or
\* create-pull-request call.
C19_SafeReentryAfterRestart ==
    /\ (pc = "loop" /\ prev_cycle.outcome = "none") =>
          last_commit_sha = get_source_latest_commit_sha(local)
    /\ (FirstCycle /\ HeadRead /\ current_commit_sha = last_at_start) =>
          NoMirrorCalls

\* After a restart on a fresh clone the first cycle has ended as a no-op for
\* a commit that the run before had mirrored.
C19_Witness ==
    /\ restarts = 1
    /\ FirstCycle /\ outcome = "ok"
    /\ calls = <<"pull", "rev-parse">>
    /\ current_commit_sha = Bytes(Sha(source_head))
    /\ SystemPRs(target_prs, current_commit_sha.v) # {}
    /\ BranchName(current_commit_sha) \notin DOMAIN local.branches

\* git branch is invoked: the step that leaves create_branch_in_target's
\* first call, whether it succeeds or fails.
BranchInvoked == pc = "create_branch" /\ pc' # "create_branch"

\* C20: git branch is never invoked for a branch name that the local clone
\* already has, so that a mirror branch is created once per commit also when
\* a cycle is retried after a failure, and no step removes a branch from the
\* local clone or from the target.
C20_BranchCreatedOncePerSha ==
    [][/\ BranchInvoked =>
            BranchName(current_commit_sha) \notin DOMAIN local.branches
       /\ (local.exists /\ local'.exists) =>
            DOMAIN local.branches \subseteq DOMAIN local'.branches
       /\ target_branches \subseteq target_branches'
      ]_vars

\* git push is invoked: the step that leaves push_to_target_branch's call,
\* whether it succeeds or fails.
PushInvoked == pc = "push" /\ pc' # "push"

\* C21: whenever push_to_target_branch runs, the local clone has the remote
\* otc_gitea, on every start-up path of run().
C21_RemoteConfiguredAtPush ==
    [][PushInvoked => "otc_gitea" \in local.remotes]_vars

====
